---- MODULE Spec2Model ----
(***************************************************************************)
(* Model of the border-prediction report bot (src/bot.py).                 *)
(*                                                                         *)
(* main() loads the latest event, passes the eligibility gates, and then   *)
(* for each border tier reads a prediction document, runs the outlier      *)
(* detection over the normalized series, renders the tier's image and      *)
(* finally composes and posts one report for all tiers.                    *)
(*                                                                         *)
(* Python values are modelled as records [kind, val]: a number carries its *)
(* value; NaN is a float that compares False with everything; NoneV stands *)
(* for None and for any other non-number (a string, a list): isinstance    *)
(* (v, (int, float)) is False for it and ordering it against a number      *)
(* raises TypeError.  Sequence indices are Python's (0-based).             *)
(***************************************************************************)
EXTENDS Integers, Sequences, FiniteSets, TLC

VARIABLES
    pc,                   \* position of main()
    debug_mode,           \* --debug or DEBUG_MODE=true
    twitter_ok,           \* setup_twitter_api() returned both clients
    latest_event,         \* metadata/latest_event_border_info.json
    now,                  \* time_utils.now_jst()
    border_pos,           \* position of the loop over BORDER_FILES
    pred,                 \* the prediction document of the tier being processed
    prediction_timestamp, \* timestamp of the first prediction file read
    border_predictions,   \* per border: the outlier direction stored for the text
    outlier_direction,    \* "high", "low" or "none" (Python None)
    start_idx, end_idx,   \* bounds of the scanned range, as computed
    all_above, all_below, checked_count,
    scanned,              \* the indices at which target[i] was read, in order
    caught,               \* TRUE when the detection's except clause ran
    rendered,             \* per border: the warning generate_summary_image drew
    tweet_text,           \* the composed report, one entry per border
    posted,               \* the tweets created by post_to_twitter
    fault                 \* the statement whose exception ended the run

detect_vars == << outlier_direction, start_idx, end_idx, all_above, all_below,
                  checked_count, scanned, caught >>

env_vars == << debug_mode, twitter_ok, latest_event, now >>

vars == << pc, env_vars, border_pos, pred, prediction_timestamp,
           border_predictions, detect_vars, rendered, tweet_text, posted, fault >>

----------------------------------------------------------------------------
(* Bounds of the model *)

MaxLen == 2

Numbers == {1, 2, 3}

Ranks == {"1", "2"}

----------------------------------------------------------------------------
(* Python values *)

Num(n) == [kind |-> "number", val |-> n]

NaN == [kind |-> "nan", val |-> 0]

NoneV == [kind |-> "none", val |-> 0]

IntIndex(n) == [is_int |-> TRUE, val |-> n]

BadIndex == [is_int |-> FALSE, val |-> 0]

Min(a, b) == IF a <= b THEN a ELSE b

Max(a, b) == IF a >= b THEN a ELSE b

SetMax(S) == CHOOSE x \in S : \A y \in S : y <= x

SetMin(S) == CHOOSE x \in S : \A y \in S : x <= y

SeqsUpTo(S, n) == UNION { [1..k -> S] : k \in 0..n }

PyInRange(seq, i) == (0 - Len(seq)) <= i /\ i < Len(seq)

PyIndex(seq, i) == IF i >= 0 THEN seq[i + 1] ELSE seq[Len(seq) + i + 1]

----------------------------------------------------------------------------
(* Outlier detection: the try block of main(), src/bot.py lines 206-273 *)

window_radius == 2

\* Faulty variant: the NaN test is left out
IsNumberType(v) == v.kind \in {"number", "nan"}

\* isinstance(v, (int, float)) and not (isinstance(v, float) and v != v)
IsValidNumber(v) == v.kind \in {"number", "nan"} /\ ~(v.kind = "nan")

\* t_val > max_neighbor / t_val < min_neighbor raise TypeError for a non-number
OrderRaises(t_val) == t_val.kind = "none"

\* Faulty variant: the comparison is not strict
GreaterOrEqual(t_val, max_neighbor) ==
    t_val.kind = "number" /\ t_val.val >= max_neighbor

\* t_val > max_neighbor: False whenever t_val is NaN
Greater(t_val, max_neighbor) == t_val.kind = "number" /\ t_val.val > max_neighbor

\* t_val < min_neighbor: False whenever t_val is NaN
Less(t_val, min_neighbor) == t_val.kind = "number" /\ t_val.val < min_neighbor

\* Faulty variant: a series too short for index i lends its last sample
neighbor_valsClamped(doc, i) ==
    { PyIndex(doc.neighbors[r], Min(i, Len(doc.neighbors[r]) - 1)).val :
        r \in { k \in DOMAIN doc.neighbors :
                  /\ k \notin doc.null_series
                  /\ Len(doc.neighbors[k]) > 0
                  /\ IsValidNumber(PyIndex(doc.neighbors[k],
                                           Min(i, Len(doc.neighbors[k]) - 1))) } }

\* The inner loop over normalized_neighbors.items(): the valid values at index i.
\* A series that is no list makes len() raise, and the inner except skips it.
neighbor_vals(doc, i) ==
    { PyIndex(doc.neighbors[r], i).val :
        r \in { k \in DOMAIN doc.neighbors :
                  /\ k \notin doc.null_series
                  /\ i < Len(doc.neighbors[k])
                  /\ IsValidNumber(PyIndex(doc.neighbors[k], i)) } }

\* pred.get("metadata", {}).get("normalized", {}).get("last_known_step_index", last_known_step)
last_known_step_norm(doc) ==
    IF doc.has_lks_norm THEN doc.lks_norm ELSE doc.last_known_step

\* Faulty variant: the neighbor mapping is not looked at
InputMissingTargetOnly(doc) == ~doc.has_target \/ Len(doc.target) = 0

\* not target or len(target) == 0 or not normalized_neighbors
InputMissing(doc) ==
    \/ ~doc.has_target
    \/ Len(doc.target) = 0
    \/ ~doc.has_neighbors
    \/ DOMAIN doc.neighbors = {}

\* Faulty variant: the window ends at the last sample of the series
EndIdxLastSample(lks, target) == Len(target) - 1

\* end_idx = min(last_known_step_norm, len(target) - 1)
EndIdx(lks, target) == Min(lks, Len(target) - 1)

\* Faulty variant: the start of the window is not held at index 0
StartIdxUnclamped(e) == e - window_radius

\* start_idx = max(0, end_idx - window_radius)
StartIdx(e) == Max(0, e - window_radius)

\* Faulty variant: the flag of the latest index replaces the running flag
FlagAboveLatest(prev, t_val, max_neighbor) == Greater(t_val, max_neighbor)

\* if not (t_val > max_neighbor): all_above = False
FlagAbove(prev, t_val, max_neighbor) == prev /\ Greater(t_val, max_neighbor)

\* if not (t_val < min_neighbor): all_below = False
FlagBelow(prev, t_val, min_neighbor) == prev /\ Less(t_val, min_neighbor)

\* Faulty variant: the scan stops as soon as one of the flags is false
ShortCircuitEither(above, below) == ~above \/ ~below

\* if not all_above and not all_below: break
ShortCircuit(above, below) == ~above /\ ~below

\* Faulty variant: the flags and the count are set once, before the loop over
\* the borders, so a tier starts from what the previous tier left
ScanStartCarried ==
    [all_above |-> all_above, all_below |-> all_below,
     checked_count |-> checked_count, scanned |-> << >>, raised |-> FALSE]

\* all_above = True; all_below = True; checked_count = 0
ScanStart ==
    [all_above |-> TRUE, all_below |-> TRUE, checked_count |-> 0,
     scanned |-> << >>, raised |-> FALSE]

\* for i in range(i, e + 1): one iteration, then the rest.  Indexing past the
\* target, or .items() of a missing mapping, raises into the outer except.
RECURSIVE ScanFrom(_, _, _, _)
ScanFrom(doc, i, e, st) ==
    IF i > e THEN st
    ELSE IF ~PyInRange(doc.target, i) THEN [st EXCEPT !.raised = TRUE]
    ELSE
      LET t_val == PyIndex(doc.target, i)
          vals  == neighbor_vals(doc, i)
          read  == [st EXCEPT !.scanned = Append(@, i)]
      IN  IF ~doc.has_neighbors THEN [read EXCEPT !.raised = TRUE]
          ELSE IF vals = {} THEN ScanFrom(doc, i + 1, e, read)
          ELSE
            LET counted == [read EXCEPT !.checked_count = @ + 1]
            IN  IF OrderRaises(t_val) THEN [counted EXCEPT !.raised = TRUE]
                ELSE
                  LET above == FlagAbove(counted.all_above, t_val, SetMax(vals))
                      below == FlagBelow(counted.all_below, t_val, SetMin(vals))
                      upd   == [counted EXCEPT !.all_above = above,
                                               !.all_below = below]
                  IN  IF ShortCircuit(above, below) THEN upd
                      ELSE ScanFrom(doc, i + 1, e, upd)

\* Faulty variant: no checked index is required
DecideUnchecked(st) ==
    IF st.all_above THEN "high" ELSE IF st.all_below THEN "low" ELSE "none"

\* Require at least one checked index, then all_above before all_below
Decide(st) ==
    IF st.checked_count = 0 THEN "none"
    ELSE IF st.all_above THEN "high"
    ELSE IF st.all_below THEN "low"
    ELSE "none"

NoScan(dir, wasCaught) ==
    [direction |-> dir, caught |-> wasCaught, start_idx |-> 0, end_idx |-> 0 - 1,
     all_above |-> TRUE, all_below |-> TRUE, checked_count |-> 0,
     scanned |-> << >>]

\* The whole try/except: the direction and what the scan did.  len() of a
\* missing target and min() or range() of a non-integer index raise.
DetectBlock(doc) ==
    IF InputMissing(doc) THEN NoScan("none", FALSE)
    ELSE IF ~doc.has_target THEN NoScan("none", TRUE)
    ELSE IF ~last_known_step_norm(doc).is_int THEN NoScan("none", TRUE)
    ELSE
      LET e  == EndIdx(last_known_step_norm(doc).val, doc.target)
          s  == StartIdx(e)
          st == ScanFrom(doc, s, e, ScanStart)
      IN  [direction |-> IF st.raised THEN "none" ELSE Decide(st),
           caught |-> st.raised, start_idx |-> s, end_idx |-> e,
           all_above |-> st.all_above, all_below |-> st.all_below,
           checked_count |-> st.checked_count, scanned |-> st.scanned]

----------------------------------------------------------------------------
(* Prediction documents *)

\* A document as main() reads it: the normalized target and neighbor series of
\* pred["data"]["normalized"], and the step indices of pred["metadata"].
\* has_target / has_neighbors: the key is present and not null.
\* null_series: the ranks whose series is not a list.
\* id: pred["metadata"]["raw"]["id"]; meta_ranks: the ranks listed in
\* pred["metadata"]["normalized"]["neighbors"].
Doc(hasT, t, hasN, nb, nulls, hasLks, lks, rawLks) ==
    [has_target |-> hasT, target |-> t, has_neighbors |-> hasN, neighbors |-> nb,
     null_series |-> nulls, has_lks_norm |-> hasLks, lks_norm |-> lks,
     last_known_step |-> rawLks, id |-> 1, meta_ranks |-> DOMAIN nb]

WellFormed(t, nb, k) == Doc(TRUE, t, TRUE, nb, {}, TRUE, IntIndex(k), IntIndex(0))

NoNeighbors == [r \in {} |-> << >>]

\* Target samples: above, below, between and equal to neighbor samples, NaN, None
TargetVals == {Num(2), Num(3), NaN, NoneV}

FirstVals == {Num(1), Num(3), NaN}

SecondVals == {Num(2), Num(3)}

\* No neighbor, one neighbor, or two: the series of rank "1" and of rank "2"
NeighborMaps(n) ==
    {NoNeighbors}
    \cup { [r \in {"1"} |-> s1] : s1 \in SeqsUpTo(FirstVals, n) }
    \cup { [r \in Ranks |-> IF r = "1" THEN s1 ELSE s2] :
             s1 \in SeqsUpTo(FirstVals, n), s2 \in SeqsUpTo(SecondVals, n) }

\* Short series of every length up to MaxLen, with invalid samples anywhere
IsShortDoc(doc) ==
    \E t \in SeqsUpTo(TargetVals, MaxLen), nb \in NeighborMaps(MaxLen),
       k \in (0 - 1)..MaxLen : doc = WellFormed(t, nb, k)

\* Series longer than the window, so that the window does not start at index 0
LongLen == MaxLen + window_radius

IsLongDoc(doc) ==
    \E t \in [1..LongLen -> { Num(n) : n \in Numbers }],
       s1 \in [1..LongLen -> {Num(2), NoneV}],
       k \in (0 - 1)..LongLen : doc = WellFormed(t, [r \in {"1"} |-> s1], k)

\* Malformed documents: a key missing, a step index that is no integer, a series
\* that is no list, or no normalized step index (the raw one is used instead)
ShapeDocs ==
    UNION { { Doc(FALSE, << >>, TRUE, nb, {}, TRUE, IntIndex(k), IntIndex(0)),
              Doc(TRUE, t, FALSE, NoNeighbors, {}, TRUE, IntIndex(k), IntIndex(0)),
              Doc(TRUE, t, TRUE, nb, {}, TRUE, BadIndex, IntIndex(0)),
              Doc(TRUE, t, TRUE, nb, {}, FALSE, IntIndex(0), BadIndex),
              Doc(TRUE, t, TRUE, nb, {}, FALSE, BadIndex, IntIndex(k)),
              Doc(TRUE, t, TRUE, nb, DOMAIN nb \cap {"1"}, TRUE, IntIndex(k),
                  IntIndex(0)) } :
            t \in SeqsUpTo(TargetVals, 1), nb \in NeighborMaps(1), k \in 0..1 }

IsDoc(doc) == IsShortDoc(doc) \/ IsLongDoc(doc) \/ doc \in ShapeDocs

----------------------------------------------------------------------------
(* The documents and the clock of a whole run.  Times are in half hours. *)

\* BORDER_FILES, in insertion order (which is also the sorted order)
Borders == << 100, 2500 >>

\* Faulty variant: one more event type is let through
EligibleEventTypesWide == {3, 4, 5, 11, 13}

EligibleEventTypes == {3, 4, 11, 13}

EventTypes == EligibleEventTypes \cup {5}

\* timedelta(hours=36.5)
PostingStartOffset == 73

\* timedelta(hours=2.5)
PostingEndOffset == 5

\* timedelta(hours=2)
StaleAfter == 4

EventLength == PostingStartOffset + PostingEndOffset + 2

Events ==
    { [EventType |-> ty, StartAt |-> 0, EndAt |-> EventLength, EventId |-> 1] :
        ty \in EventTypes }

Clock ==
    { 0 - 1, PostingStartOffset - 1, PostingStartOffset,
      EventLength - PostingEndOffset, EventLength - PostingEndOffset + 1,
      EventLength + 1 }

NoTimestamp == [kind |-> "none", at |-> 0]

\* r2.get_file_timestamp: the LastModified of head_object, a datetime, here
\* just written, exactly two hours old, or older
Timestamps(t) ==
    { [kind |-> "datetime", at |-> t - age] :
        age \in {0, StaleAfter, StaleAfter + 1} }

RunDoc(doc, id, meta) == [doc EXCEPT !.id = id, !.meta_ranks = meta]

RunTargets == { << Num(3) >>, << Num(1) >>, << NoneV >> }

RunMaps == { NoNeighbors, [r \in {"1"} |-> << Num(2) >>], [r \in {"1"} |-> << >>] }

RunShapes ==
    { WellFormed(t, nb, 0) : t \in RunTargets \cup { << >> }, nb \in RunMaps }
    \cup { Doc(FALSE, << >>, TRUE, nb, {}, TRUE, IntIndex(0), IntIndex(0)) :
             nb \in RunMaps }
    \cup UNION {
           { Doc(TRUE, t, FALSE, NoNeighbors, {}, TRUE, IntIndex(0), IntIndex(0)),
             Doc(TRUE, t, TRUE, [r \in {"1"} |-> << Num(2) >>], {}, TRUE, BadIndex,
                 IntIndex(0)),
             Doc(TRUE, t, TRUE, [r \in {"1"} |-> << Num(2) >>], {}, FALSE,
                 IntIndex(0), BadIndex),
             Doc(TRUE, t, TRUE, [r \in {"1"} |-> << Num(2) >>], {}, FALSE, BadIndex,
                 IntIndex(0)),
             Doc(TRUE, t, TRUE, [r \in {"1"} |-> << Num(2) >>], {"1"}, TRUE,
                 IntIndex(0), IntIndex(0)) } : t \in RunTargets }

RunDocs ==
    { RunDoc(d, 1, meta) : d \in RunShapes, meta \in { {}, {"1"} } }
    \cup { RunDoc(WellFormed(<< Num(3) >>, [r \in {"1"} |-> << Num(2) >>], 0),
                  2, {"1"}) }

----------------------------------------------------------------------------
(* main(), src/bot.py lines 92-354 *)

border == Borders[border_pos]

Return == pc' = "exited"

Raise(stmt) == pc' = "raised" /\ fault' = stmt

\* Debug mode and Twitter setup: without clients the run returns
Setup ==
    /\ pc = "setup"
    /\ IF ~debug_mode /\ ~twitter_ok THEN Return ELSE pc' = "event_type"
    /\ UNCHANGED << env_vars, border_pos, pred, prediction_timestamp,
                    border_predictions, detect_vars, rendered, tweet_text, posted,
                    fault >>

\* if latest_event["EventType"] not in [3, 4, 11, 13]: return
CheckEventType ==
    /\ pc = "event_type"
    /\ IF latest_event.EventType \notin EligibleEventTypes THEN Return
       ELSE pc' = "event_period"
    /\ UNCHANGED << env_vars, border_pos, pred, prediction_timestamp,
                    border_predictions, detect_vars, rendered, tweet_text, posted,
                    fault >>

\* if not (start_at <= now <= end_at): return
CheckEventPeriod ==
    /\ pc = "event_period"
    /\ IF ~(latest_event.StartAt <= now /\ now <= latest_event.EndAt) THEN Return
       ELSE pc' = "posting_window"
    /\ UNCHANGED << env_vars, border_pos, pred, prediction_timestamp,
                    border_predictions, detect_vars, rendered, tweet_text, posted,
                    fault >>

\* if not (posting_start <= now <= posting_end): return
CheckPostingWindow ==
    /\ pc = "posting_window"
    /\ LET posting_start == latest_event.StartAt + PostingStartOffset
           posting_end   == latest_event.EndAt - PostingEndOffset
       IN  IF ~(posting_start <= now /\ now <= posting_end) THEN Return
           ELSE pc' = "read_pred"
    /\ UNCHANGED << env_vars, border_pos, pred, prediction_timestamp,
                    border_predictions, detect_vars, rendered, tweet_text, posted,
                    fault >>

\* Read the tier's document, check its event id, compute the progress
ReadPrediction ==
    /\ pc = "read_pred"
    /\ \E doc \in RunDocs :
         /\ pred' = doc
         /\ IF doc.id # latest_event.EventId
              THEN Raise("event_id")
            ELSE IF ~doc.last_known_step.is_int
              THEN Raise("progress_percentage")
            ELSE pc' = "timestamp" /\ UNCHANGED fault
    /\ UNCHANGED << env_vars, border_pos, prediction_timestamp, border_predictions,
                    detect_vars, rendered, tweet_text, posted >>

\* The timestamp is fetched for the first tier only; a stale one ends the run
CheckTimestamp ==
    /\ pc = "timestamp"
    /\ IF prediction_timestamp.kind = "none"
         THEN \E ts \in Timestamps(now) :
                /\ prediction_timestamp' = ts
                /\ IF ts.kind = "datetime" /\ now - ts.at > StaleAfter
                     THEN Return
                   ELSE pc' = "extract"
       ELSE pc' = "extract" /\ UNCHANGED prediction_timestamp
    /\ UNCHANGED << env_vars, border_pos, pred, border_predictions, detect_vars,
                    rendered, tweet_text, posted, fault >>

\* neighbor_data of a listed rank: pred["data"]["normalized"]["neighbors"][rank][-1]
NeighborsInfoRaises(doc) ==
    \E rank \in doc.meta_ranks :
        \/ ~doc.has_neighbors
        \/ rank \notin DOMAIN doc.neighbors
        \/ rank \in doc.null_series
        \/ ~PyInRange(doc.neighbors[rank], 0 - 1)

\* Store the tier's scores, then collect the neighbors' final scores
ExtractNeighborsInfo ==
    /\ pc = "extract"
    /\ border_predictions' = [border_predictions EXCEPT ![border] = "unset"]
    /\ IF NeighborsInfoRaises(pred) THEN Raise("neighbors_info")
       ELSE pc' = "detect" /\ UNCHANGED fault
    /\ UNCHANGED << env_vars, border_pos, pred, prediction_timestamp, detect_vars,
                    rendered, tweet_text, posted >>

\* The detection's try block, and the direction attached to the tier's entry
Detect ==
    /\ pc = "detect"
    /\ LET r == DetectBlock(pred)
       IN  /\ outlier_direction' = r.direction
           /\ caught' = r.caught
           /\ start_idx' = r.start_idx
           /\ end_idx' = r.end_idx
           /\ all_above' = r.all_above
           /\ all_below' = r.all_below
           /\ checked_count' = r.checked_count
           /\ scanned' = r.scanned
           /\ border_predictions' = [border_predictions EXCEPT ![border] = r.direction]
    /\ pc' = "image"
    /\ UNCHANGED << env_vars, border_pos, pred, prediction_timestamp, rendered,
                    tweet_text, posted, fault >>

\* '高め' if high else '低め'
direction_text(outlier) == IF outlier = "high" THEN "takame" ELSE "hikume"

\* '下振れ' if high else '上振れ'
result_trend_text(outlier) == IF outlier = "high" THEN "shitabure" ELSE "uwabure"

NoCaveat == << >>

\* generate_summary_image: has_warning and the warning text it draws
ImageWarning(outlier) ==
    IF outlier \in {"high", "low"}
      THEN << direction_text(outlier), result_trend_text(outlier) >>
    ELSE NoCaveat

\* Render the tier's image, then go on to the next tier
GenerateImage ==
    /\ pc = "image"
    /\ rendered' = [rendered EXCEPT ![border] =
                      [drawn |-> TRUE, warning |-> ImageWarning(outlier_direction)]]
    /\ IF border_pos < Len(Borders)
         THEN border_pos' = border_pos + 1 /\ pc' = "read_pred"
       ELSE pc' = "compose" /\ UNCHANGED border_pos
    /\ UNCHANGED << env_vars, pred, prediction_timestamp, border_predictions,
                    detect_vars, tweet_text, posted, fault >>

\* Faulty variant: every entry shows the first tier's direction
StoredDirectionOfFirst(predictions, b) ==
    IF predictions[Borders[1]] = "unset" THEN "none" ELSE predictions[Borders[1]]

\* border_predictions[border].get('outlier_direction')
StoredDirection(predictions, b) ==
    IF predictions[b] = "unset" THEN "none" ELSE predictions[b]

\* The caveat sentence of one border's entry, or none
TweetCaveat(outlier) ==
    IF outlier \in {"high", "low"}
      THEN << direction_text(outlier), result_trend_text(outlier) >>
    ELSE NoCaveat

\* One entry per border of sorted(BORDER_FILES) that has a stored prediction
RECURSIVE TweetLines(_, _)
TweetLines(predictions, k) ==
    IF k > Len(Borders) THEN << >>
    ELSE LET b == Borders[k]
             rest == TweetLines(predictions, k + 1)
         IN  IF predictions[b] = "absent" THEN rest
             ELSE << [border |-> b,
                      caveat |-> TweetCaveat(StoredDirection(predictions, b))] >>
                  \o rest

ComposeTweet ==
    /\ pc = "compose"
    /\ tweet_text' = TweetLines(border_predictions, 1)
    /\ pc' = "post"
    /\ UNCHANGED << env_vars, border_pos, pred, prediction_timestamp,
                    border_predictions, detect_vars, rendered, posted, fault >>

\* post_to_twitter: nothing is sent in debug mode; a failed upload or post is
\* caught by main()
PostToTwitter ==
    /\ pc = "post"
    /\ IF debug_mode THEN UNCHANGED posted
       ELSE \E sent \in BOOLEAN :
              posted' = IF sent THEN Append(posted, tweet_text) ELSE posted
    /\ pc' = "cleanup"
    /\ UNCHANGED << env_vars, border_pos, pred, prediction_timestamp,
                    border_predictions, detect_vars, rendered, tweet_text, fault >>

\* Remove the image files unless in debug mode
Cleanup ==
    /\ pc = "cleanup"
    /\ rendered' = IF debug_mode THEN rendered
                   ELSE [b \in DOMAIN rendered |-> [rendered[b] EXCEPT !.drawn = FALSE]]
    /\ pc' = "done"
    /\ UNCHANGED << env_vars, border_pos, pred, prediction_timestamp,
                    border_predictions, detect_vars, tweet_text, posted, fault >>

BorderSet == { Borders[k] : k \in 1..Len(Borders) }

NotRendered == [drawn |-> FALSE, warning |-> NoCaveat]

InitLocals ==
    /\ border_pos = 1
    /\ outlier_direction = "none"
    /\ caught = FALSE
    /\ start_idx = 0
    /\ end_idx = 0 - 1
    /\ all_above = TRUE
    /\ all_below = TRUE
    /\ checked_count = 0
    /\ scanned = << >>
    /\ rendered = [b \in BorderSet |-> NotRendered]
    /\ tweet_text = << >>
    /\ posted = << >>
    /\ fault = "none"

Init ==
    /\ pc = "setup"
    /\ debug_mode \in BOOLEAN
    /\ twitter_ok \in BOOLEAN
    /\ latest_event \in Events
    /\ now \in Clock
    /\ pred = WellFormed(<< >>, NoNeighbors, 0)
    /\ prediction_timestamp = NoTimestamp
    /\ border_predictions = [b \in BorderSet |-> "absent"]
    /\ InitLocals

Next ==
    \/ Setup
    \/ CheckEventType
    \/ CheckEventPeriod
    \/ CheckPostingWindow
    \/ ReadPrediction
    \/ CheckTimestamp
    \/ ExtractNeighborsInfo
    \/ Detect
    \/ GenerateImage
    \/ ComposeTweet
    \/ PostToTwitter
    \/ Cleanup

Spec == Init /\ [][Next]_vars

----------------------------------------------------------------------------
(* The detection on its own: the first tier's document is any document, the
   gates are passed and its entry is stored; the detection is applied to it. *)

InitDetect ==
    /\ pc = "detect"
    /\ debug_mode = TRUE
    /\ twitter_ok = FALSE
    /\ latest_event = [EventType |-> 3, StartAt |-> 0, EndAt |-> EventLength,
                       EventId |-> 1]
    /\ now = PostingStartOffset
    /\ IsDoc(pred)
    /\ prediction_timestamp = [kind |-> "datetime", at |-> PostingStartOffset]
    /\ border_predictions = [b \in BorderSet |->
                               IF b = Borders[1] THEN "unset" ELSE "absent"]
    /\ InitLocals

NextDetect == Detect

SpecDetect == InitDetect /\ [][NextDetect]_vars

----------------------------------------------------------------------------
(* Vocabulary of the properties, stated on the document itself *)

Detected == pc = "image"

Target == pred.target

Series(r) == pred.neighbors[r]

\* The detection reaches its scan: both inputs present and non-empty, integer index
Scannable ==
    /\ pred.has_target /\ Target # << >>
    /\ pred.has_neighbors /\ DOMAIN pred.neighbors # {}
    /\ IF pred.has_lks_norm THEN pred.lks_norm.is_int ELSE pred.last_known_step.is_int

Lks == IF pred.has_lks_norm THEN pred.lks_norm.val ELSE pred.last_known_step.val

LastIndex == Len(Target) - 1

\* Indices e-2 .. e of the grid, e the last known step capped at the last sample
Window ==
    LET e == IF Lks < LastIndex THEN Lks ELSE LastIndex
    IN  { i \in 0..LastIndex : e - 2 <= i /\ i <= e }

IsNumberAt(seq, i) == seq[i + 1].kind = "number"

Reaches(r, i) == r \notin pred.null_series /\ i < Len(Series(r))

ValuesAt(i) ==
    { Series(r)[i + 1].val :
        r \in { k \in DOMAIN pred.neighbors :
                  Reaches(k, i) /\ IsNumberAt(Series(k), i) } }

Comparable(i) == ValuesAt(i) # {}

AboveAt(i) == IsNumberAt(Target, i) /\ \A v \in ValuesAt(i) : Target[i + 1].val > v

BelowAt(i) == IsNumberAt(Target, i) /\ \A v \in ValuesAt(i) : Target[i + 1].val < v

InvalidNeighborAt(i) ==
    \E r \in DOMAIN pred.neighbors : Reaches(r, i) /\ ~IsNumberAt(Series(r), i)

NumericSeries ==
    /\ \A i \in 0..LastIndex : IsNumberAt(Target, i)
    /\ pred.null_series = {}
    /\ \A r \in DOMAIN pred.neighbors :
         \A i \in 0..(Len(Series(r)) - 1) : IsNumberAt(Series(r), i)

----------------------------------------------------------------------------
(* C1: monotonic separation *)

\* C1 as stated: for numeric series, a target strictly above every neighbor's
\* value at every window index gives "high", strictly below gives "low".
C1_SeparationAsStated ==
    (Detected /\ Scannable /\ NumericSeries) =>
        /\ (\A i \in Window : AboveAt(i)) => outlier_direction = "high"
        /\ (\A i \in Window : BelowAt(i)) => outlier_direction = "low"

\* C1 amended: the same, provided some window index has a neighbor value; a
\* window that no neighbor reaches (or an empty window) gives "none".
C1_Separation ==
    (Detected /\ Scannable /\ NumericSeries) =>
        /\ (\E i \in Window : Comparable(i)) =>
             /\ (\A i \in Window : AboveAt(i)) => outlier_direction = "high"
             /\ (\A i \in Window : BelowAt(i)) => outlier_direction = "low"
        /\ (\A i \in Window : ~Comparable(i)) => outlier_direction = "none"

C1_Witness ==
    /\ Detected /\ Scannable /\ NumericSeries
    /\ DOMAIN pred.neighbors = Ranks
    /\ Cardinality(Window) >= 2
    /\ \A i \in Window :
         /\ \A r \in Ranks : Reaches(r, i)
         /\ AboveAt(i)
    /\ outlier_direction = "high"

----------------------------------------------------------------------------
(* C2: minimum-length threshold *)

\* C2 as stated: when the target or any neighbor series has a length at or below
\* the minimum-length threshold (50), the direction is "none".
C2_ShortSeriesGiveNone ==
    (/\ Detected /\ pred.has_target /\ pred.has_neighbors
     /\ \/ Len(Target) <= 50
        \/ \E r \in DOMAIN pred.neighbors : Len(Series(r)) <= 50)
    => outlier_direction = "none"

----------------------------------------------------------------------------
(* C3: empty or missing input *)

\* C3: a missing or empty target, or a missing or empty neighbor mapping, gives
\* "none" by the guard itself: nothing is scanned and no fault is raised,
\* whatever the other input and the step index are.
C3_EmptyInputGivesNone ==
    (/\ Detected
     /\ \/ ~pred.has_target \/ Target = << >>
        \/ ~pred.has_neighbors \/ DOMAIN pred.neighbors = {})
    => (outlier_direction = "none" /\ scanned = << >> /\ ~caught)

C3_Witness ==
    /\ Detected
    /\ pred.has_target /\ Target # << >>
    /\ ~pred.has_neighbors
    /\ outlier_direction = "none"

----------------------------------------------------------------------------
(* C4: ties *)

\* C4: a target equal to the largest neighbor value at a window index that has
\* neighbor values never gives "high"; equal to the smallest never gives "low".
C4_TiesAreNotOutliers ==
    (Detected /\ Scannable) =>
        \A i \in Window :
            (Comparable(i) /\ IsNumberAt(Target, i)) =>
                /\ (\A v \in ValuesAt(i) : v <= Target[i + 1].val)
                   /\ Target[i + 1].val \in ValuesAt(i)
                   => outlier_direction # "high"
                /\ (\A v \in ValuesAt(i) : v >= Target[i + 1].val)
                   /\ Target[i + 1].val \in ValuesAt(i)
                   => outlier_direction # "low"

C4_Witness ==
    /\ Detected /\ Scannable
    /\ \E i \in Window :
         /\ Comparable(i) /\ IsNumberAt(Target, i)
         /\ Target[i + 1].val \in ValuesAt(i)
         /\ \A v \in ValuesAt(i) : v <= Target[i + 1].val
         /\ \A j \in Window \ {i} : Comparable(j) /\ AboveAt(j)
         /\ Window # {i}
    /\ outlier_direction = "none"

----------------------------------------------------------------------------
(* C5: mixed direction *)

InsideAt(i) ==
    /\ IsNumberAt(Target, i)
    /\ \E v \in ValuesAt(i) : v <= Target[i + 1].val
    /\ \E v \in ValuesAt(i) : v >= Target[i + 1].val

\* C5: a window with one index strictly above all neighbors and another strictly
\* below, or with an index where the target lies inside the neighbors' range,
\* gives "none".
C5_MixedGivesNone ==
    (/\ Detected /\ Scannable
     /\ \/ \E i, j \in Window :
             Comparable(i) /\ Comparable(j) /\ AboveAt(i) /\ BelowAt(j)
        \/ \E i \in Window : Comparable(i) /\ InsideAt(i))
    => outlier_direction = "none"

C5_Witness ==
    /\ Detected /\ Scannable
    /\ \E i, j \in Window :
         i > j /\ Comparable(i) /\ Comparable(j) /\ AboveAt(i) /\ BelowAt(j)
    /\ outlier_direction = "none"

----------------------------------------------------------------------------
(* C6: invalid target sample *)

\* C6 as stated: a target value that is missing, non-numeric or NaN at any
\* window index gives "none", whatever the neighbors hold at that index.
C6_InvalidTargetGivesNone ==
    (/\ Detected /\ Scannable
     /\ \E i \in Window : ~IsNumberAt(Target, i))
    => outlier_direction = "none"

----------------------------------------------------------------------------
(* C7: invalid samples in the window *)

\* C7 as stated (strict policy): "high" or "low" is never returned when a
\* target or neighbor sample inside the window is non-numeric or NaN.
C7_StrictPolicy ==
    (Detected /\ Scannable /\ outlier_direction \in {"high", "low"}) =>
        \A i \in Window : IsNumberAt(Target, i) /\ ~InvalidNeighborAt(i)

\* C7 amended (tolerant policy): an invalid neighbor sample is only left out at
\* its index.  "high" means that some window index has a valid neighbor value
\* and that at every such index the target is a number above all valid neighbor
\* values; "low" likewise.  So an invalid target sample at an index that has a
\* valid neighbor value forces "none".
C7_TolerantPolicy ==
    (Detected /\ Scannable) =>
        /\ outlier_direction = "high" =>
             /\ \E i \in Window : Comparable(i)
             /\ \A i \in Window : Comparable(i) => AboveAt(i)
        /\ outlier_direction = "low" =>
             /\ \E i \in Window : Comparable(i)
             /\ \A i \in Window : Comparable(i) => BelowAt(i)

C7_Witness ==
    /\ Detected /\ Scannable
    /\ outlier_direction \in {"high", "low"}
    /\ \E i \in Window : InvalidNeighborAt(i) /\ Comparable(i)
    /\ \E i \in Window : InvalidNeighborAt(i) /\ ~Comparable(i)

----------------------------------------------------------------------------
(* C8: faults and the report *)

\* C8 as stated: whatever the shape of a prediction document of the right event
\* (a missing normalized target or neighbor mapping, a step index that is no
\* integer), no exception ends the run: the tier's image and the report follow.
C8_ShapeFaultsNeverAbort == pc = "raised" => fault = "event_id"

----------------------------------------------------------------------------
(* C9: where the window lies *)

\* C9 as stated: the window is the trailing indices of the series, so the last
\* sample of the target is always inside it.
C9_WindowEndsAtLastSample ==
    (Detected /\ Scannable) => LastIndex \in start_idx..end_idx

\* C9 amended: the window is the absolute index range max(0, e-2) .. e with
\* e = min(last known step, last index); only indices of it are read, and the
\* last sample of the target is inside it exactly when the last known step is
\* at or beyond the last index.
C9_WindowEndsAtLastKnownStep ==
    (Detected /\ Scannable) =>
        /\ start_idx..end_idx = Window
        /\ \A k \in 1..Len(scanned) : scanned[k] \in Window
        /\ (LastIndex \in start_idx..end_idx) <=> (Lks >= LastIndex)

C9_Witness ==
    /\ Detected /\ Scannable
    /\ Lks >= 0 /\ Lks < LastIndex
    /\ Comparable(LastIndex) /\ BelowAt(LastIndex)
    /\ LastIndex \notin start_idx..end_idx
    /\ outlier_direction = "high"

----------------------------------------------------------------------------
(* C10: the direction in the image and in the report *)

Composed == pc \in {"post", "cleanup", "done"}

PhrasePair(dir) ==
    IF dir = "high" THEN << "takame", "shitabure" >>
    ELSE IF dir = "low" THEN << "hikume", "uwabure" >>
    ELSE << >>

EntriesOf(b) == { k \in 1..Len(tweet_text) : tweet_text[k].border = b }

\* C10: the direction computed for a tier is the one stored for it and the one
\* its image is rendered with; the report holds one entry per tier, whose caveat
\* is present exactly when that tier's direction is "high" or "low" and carries
\* that direction's phrase pair.
C10_DirectionIsThreaded ==
    /\ pc = "image" => border_predictions[border] = outlier_direction
    /\ \A b \in BorderSet :
         rendered[b] # NotRendered =>
             rendered[b].warning = PhrasePair(border_predictions[b])
    /\ Composed =>
         \A b \in BorderSet :
             /\ Cardinality(EntriesOf(b)) = 1
             /\ \A k \in EntriesOf(b) :
                  /\ tweet_text[k].caveat # << >>
                       <=> border_predictions[b] \in {"high", "low"}
                  /\ tweet_text[k].caveat = PhrasePair(border_predictions[b])

C10_Witness ==
    /\ pc = "done"
    /\ border_predictions[Borders[1]] = "high"
    /\ border_predictions[Borders[2]] = "low"
    /\ posted = << tweet_text >>
    /\ tweet_text = << [border |-> Borders[1], caveat |-> << "takame", "shitabure" >>],
                       [border |-> Borders[2], caveat |-> << "hikume", "uwabure" >>] >>

----------------------------------------------------------------------------
(* C11: idempotence and purity *)

\* The direction as a function of the document alone: the comparable indices
\* of the window, all above or all below
ExpectedDirection ==
    IF ~Scannable THEN "none"
    ELSE LET checked == { i \in Window : Comparable(i) }
         IN  IF checked = {} THEN "none"
             ELSE IF \A i \in checked : AboveAt(i) THEN "high"
             ELSE IF \A i \in checked : BelowAt(i) THEN "low"
             ELSE "none"

\* C11: every application of the detection, for the first tier or after
\* another tier's detection, leaves the document (target, neighbor mapping,
\* last known step) unchanged and yields the direction that the document alone
\* determines; so two applications to identical inputs yield the identical
\* direction.
C11_DetectionIsPureAndRepeatable ==
    [][(pc = "detect" /\ pc' = "image")
         => (pred' = pred /\ outlier_direction' = ExpectedDirection)]_vars

\* A second detection in the same run, after a first one that left its flags
\* behind, repeating the first one's direction
C11_Witness ==
    /\ pc = "image" /\ border_pos = 2
    /\ rendered[Borders[1]].drawn
    /\ border_predictions[Borders[1]] = "low"
    /\ ExpectedDirection = "low"
    /\ outlier_direction = "low"

----------------------------------------------------------------------------
(* C12: tolerant skipping *)

ScannedSet == { scanned[k] : k \in 1..Len(scanned) }

\* The scanned indices at which some neighbor has a valid value
CheckedSet == { i \in ScannedSet : Comparable(i) }

\* C12: a neighbor that does not reach an index, or holds no number there, is
\* left out at that index only: the flags are the comparisons against the
\* values valid at each index.  An index without any valid neighbor value is
\* neither counted nor held against a flag, and the result is high or low only
\* when at least one index was counted.
C12_TolerantSkipping ==
    (Detected /\ Scannable) =>
        LET checked == CheckedSet
        IN  /\ checked_count = Cardinality(checked)
            /\ ~caught => /\ all_above = (\A i \in checked : AboveAt(i))
                          /\ all_below = (\A i \in checked : BelowAt(i))
            /\ checked = {} =>
                 all_above /\ all_below /\ ~caught /\ outlier_direction = "none"
            /\ outlier_direction \in {"high", "low"} => checked_count >= 1

\* Two indices scanned: at one no neighbor has a valid value (one holds a
\* non-number, another does not reach it), the other is checked and decides
C12_Witness ==
    /\ Detected /\ Scannable
    /\ Len(scanned) = 2 /\ checked_count = 1
    /\ outlier_direction \in {"high", "low"}
    /\ \E i \in ScannedSet :
         /\ ~Comparable(i)
         /\ InvalidNeighborAt(i)
         /\ \E r \in DOMAIN pred.neighbors : ~Reaches(r, i)
    /\ \E r \in DOMAIN pred.neighbors, i, j \in ScannedSet :
         /\ Reaches(r, i) /\ ~IsNumberAt(Series(r), i)
         /\ Reaches(r, j) /\ IsNumberAt(Series(r), j)

----------------------------------------------------------------------------
(* C13: short-circuit equivalence *)

\* The scan without the break: every index of i .. e is visited, and an
\* invalid target value at a checked index raises wherever it lies
RECURSIVE ScanEvery(_, _, _, _)
ScanEvery(doc, i, e, st) ==
    IF i > e THEN st
    ELSE IF ~PyInRange(doc.target, i) THEN [st EXCEPT !.raised = TRUE]
    ELSE
      LET t_val == PyIndex(doc.target, i)
          vals  == neighbor_vals(doc, i)
          read  == [st EXCEPT !.scanned = Append(@, i)]
      IN  IF vals = {} THEN ScanEvery(doc, i + 1, e, read)
          ELSE IF OrderRaises(t_val)
            THEN [read EXCEPT !.checked_count = @ + 1, !.raised = TRUE]
          ELSE ScanEvery(doc, i + 1, e,
                 [read EXCEPT
                    !.checked_count = @ + 1,
                    !.all_above = FlagAbove(@, t_val, SetMax(vals)),
                    !.all_below = FlagBelow(@, t_val, SetMin(vals))])

FullScan == ScanEvery(pred, start_idx, end_idx, ScanStart)

Direction(st) == IF st.raised THEN "none" ELSE Decide(st)

\* The scan ended on the break, before the end of its window
StoppedEarly == ~caught /\ Len(scanned) < end_idx - start_idx + 1

\* C13: the direction the detection returns is the direction the scan without
\* the break returns; when the scan stops early both are none, whether the
\* indices left unvisited would compare or raise.
C13_ShortCircuitEquivalence ==
    (Detected /\ Scannable) =>
        LET full == FullScan
        IN  /\ outlier_direction = Direction(full)
            /\ StoppedEarly =>
                 /\ outlier_direction = "none"
                 /\ ~all_above /\ ~all_below
                 /\ Len(full.scanned) > Len(scanned) \/ full.raised

\* The scan stopped early and an index it left unvisited holds a target value
\* whose comparison would raise
C13_Witness ==
    /\ Detected /\ Scannable /\ StoppedEarly
    /\ FullScan.raised
    /\ \E i \in Window :
         /\ i \notin ScannedSet
         /\ Comparable(i)
         /\ Target[i + 1] = NoneV

----------------------------------------------------------------------------
(* C14: window bounds *)

\* e = min(last_known_step_norm, len(target) - 1)
WindowEnd == IF Lks < LastIndex THEN Lks ELSE LastIndex

\* max(0, e - 2)
WindowStart == IF WindowEnd - 2 > 0 THEN WindowEnd - 2 ELSE 0

WindowSize == IF WindowEnd >= WindowStart THEN WindowEnd - WindowStart + 1 ELSE 0

\* WindowStart .. WindowEnd in increasing order
WindowIndices == [k \in 1..WindowSize |-> WindowStart + k - 1]

\* C14 as stated: the scan visits exactly the indices max(0, e-2) .. e.
C14_VisitsWholeWindow ==
    (Detected /\ Scannable) => scanned = WindowIndices

\* C14: the scan visits the indices max(0, e-2) .. e in increasing order,
\* all of them unless the break or a raised comparison ends it before: at most
\* 3 indices, each a non-negative index inside the target, for every integer
\* last known step; a negative one makes the window empty and the result none.
C14_WindowBounds ==
    (Detected /\ Scannable) =>
        LET indices == WindowIndices
        IN  /\ Len(scanned) <= Len(indices)
            /\ \A k \in 1..Len(scanned) : scanned[k] = indices[k]
            /\ (~caught /\ (all_above \/ all_below)) => scanned = indices
            /\ Len(scanned) <= 3
            /\ \A k \in 1..Len(scanned) :
                 0 <= scanned[k] /\ scanned[k] < Len(Target)
            /\ Lks < 0 => scanned = << >> /\ ~caught /\ outlier_direction = "none"

\* A window of three indices that starts after index 0, scanned to its end,
\* the last known step lying beyond the series
C14_Witness ==
    /\ Detected /\ Scannable
    /\ Lks > LastIndex
    /\ WindowStart > 0
    /\ scanned = WindowIndices
    /\ Len(scanned) = 3

----------------------------------------------------------------------------
(* C15: gating before publish *)

\* The run has come to the call of post_to_twitter, or is past it
PostReached == pc \in {"post", "cleanup", "done"}

\* A tier's document is being processed, its event id having been checked
TierInProgress == pc \in {"timestamp", "extract", "detect", "image"}

\* Times are counted in half hours: 36.5 h = 73, 2.5 h = 5, 2 h = 4
GatesPassed ==
    /\ latest_event.EventType \in {3, 4, 11, 13}
    /\ latest_event.StartAt + 73 <= now
    /\ now <= latest_event.EndAt - 5
    /\ prediction_timestamp.kind = "datetime"
    /\ now - prediction_timestamp.at <= 4

\* C15: post_to_twitter is reached only when the event type is one of 3, 4,
\* 11, 13, the current time lies in [start + 36.5h, end - 2.5h], the
\* prediction timestamp is at most 2 hours older than the current time and
\* every tier was processed with a document of the latest event's id; a run
\* that ended on a gate has posted nothing.  The timestamp is set once, while
\* the first tier is processed, and never changes afterwards.
C15_GatingBeforePublish ==
    /\ [](PostReached =>
            /\ GatesPassed
            /\ pred.id = latest_event.EventId
            /\ \A b \in BorderSet : border_predictions[b] \notin {"absent", "unset"})
    /\ [](TierInProgress => pred.id = latest_event.EventId)
    /\ []((pc \in {"extract", "detect", "image"} \/ border_pos > 1) =>
            prediction_timestamp # NoTimestamp)
    /\ [](posted # << >> => PostReached /\ pc # "post")
    /\ [](pc \in {"exited", "raised"} => posted = << >>)
    /\ [][prediction_timestamp' # prediction_timestamp =>
            /\ prediction_timestamp = NoTimestamp
            /\ border_pos = 1
            /\ pc = "timestamp"]_vars

\* A finished run that posted, started at the first instant of the posting
\* window with a prediction exactly two hours old
C15_Witness ==
    /\ pc = "done"
    /\ posted # << >>
    /\ ~debug_mode
    /\ now = latest_event.StartAt + 73
    /\ now - prediction_timestamp.at = 4

====
